---- MODULE Spec2Model ----
(***************************************************************************)
(* A model of MoveLowPrioritytoShoppingList.py: the start-up paths of      *)
(* main (loadConfig / getConfigFromUser, authenticate, checkConfig, the    *)
(* restore of the cached notes) and programLoop with the KeepListObj       *)
(* methods it calls.                                                       *)
(*                                                                         *)
(* Two specifications share the variables and the loop's actions:          *)
(*   Spec      the whole program, from main's first line.  The list sets   *)
(*             programLoop iterates are the ones the KeepListObj           *)
(*             constructor builds from the JSON text config["list_sets"]. *)
(*   SpecLoop  the body of programLoop applied to KeepListObj instances    *)
(*             whose keep_notes is the Keep handle (the objects the        *)
(*             constructor call KeepListObj(_keep, p, s) builds), over     *)
(*             every small note store.                                     *)
(*                                                                         *)
(* Strings that the code searches (list names, note titles, item texts)    *)
(* are sequences of characters, so `in' is a real substring test.          *)
(***************************************************************************)
EXTENDS Integers, Sequences, FiniteSets, TLC

\* ------------------------------------------------------------------ bounds
MaxSets == 1          \* list sets in a configuration
MaxItems == 2         \* list items in the note store at the start

\* ------------------------------------------------------- program constants
MinTokenLen == 100    \* checkToken: len(token) < 100

\* ---------------------------------------------------------------- strings
EmptyStr == << >>
ListNames == { <<"a">>, <<"b">> }                 \* names a user configures
NoteTitles == { <<"a">>, <<"b">>, <<"a", "b">> }  \* titles in the note store
ItemTexts == { <<"x">>, <<"a">> }                 \* texts of list items
NoteIdx == {1, 2}                                 \* the store's notes

\* Python's `q in s' on strings.
IsSubstr(q, s) ==
    \E i \in 0..(Len(s) - Len(q)) : SubSeq(s, i + 1, i + Len(q)) = q

RECURSIVE Reverse(_)
Reverse(s) == IF s = << >> THEN << >> ELSE Reverse(Tail(s)) \o <<Head(s)>>

\* ------------------------------------------------------------- the program
VARIABLES
    pc,             \* position in main / programLoop
    args_config,    \* TRUE when --config names a file
    cfgFile,        \* the config file main consults: its state and its content
    keyringTok,     \* the keyring's entry for the username (set = FALSE: None)
    notesFile,      \* KEEP_NOTES_PATH: "missing", "valid", "corrupt"
    config,         \* main's config dict
    authCalls,      \* the tokens keep.authenticate has been called with
    errKind,        \* the exception that ended the run, "" when none
    errFile,        \* the file the exception's message names, "" when none
    retval,         \* programLoop's return value
    exitStatus,     \* the process's exit status once pc = "exited"
    exitCause,      \* "", "setup", "interrupt", "loop_error"
    syncFailed,     \* keep.sync has raised
    examined,       \* list-set pairs checkConfig called checkListNames on
    notes,          \* the note store: NoteIdx -> [title, items]
    keep_list,      \* programLoop's _keep_list
    li,             \* index of _keep_obj in _keep_list
    scanQ,          \* checked items checkIfLowPriorityTicked has still to visit
    items_to_move,  \* _items_to_move
    moveNotes,      \* notes moveItemsToPrimaryList has still to visit
    moveK,          \* index in items_to_move of the next item to add
    snapshotWrites, \* times KEEP_NOTES_PATH was written by programLoop
    nextId,         \* identity of the next ListItem created
    pre             \* the list set's turn: the store and snapshot count when it
                    \* began, its index, the items it collected

vars == << pc, args_config, cfgFile, keyringTok, notesFile, config, authCalls,
           errKind, errFile, retval, exitStatus, exitCause, syncFailed, examined,
           notes, keep_list, li, scanQ, items_to_move, moveNotes, moveK,
           snapshotWrites, nextId, pre >>

mainVars == << args_config, cfgFile, notesFile, config, authCalls, examined >>
loopVars == << notes, keep_list, li, scanQ, items_to_move, moveNotes, moveK,
               snapshotWrites, nextId, pre >>

\* ----------------------------------------------------------------- values
UsernameShapes == {"empty", "not_gmail", "gmail"}
NoToken == [set |-> FALSE, len |-> 0]
Tokens == {NoToken} \cup
          { [set |-> TRUE, len |-> n] : n \in {0, MinTokenLen - 1, MinTokenLen} }

SeqsUpTo(S, n) == UNION { [1..k -> S] : k \in 0..n }

\* One element of the JSON array stored under "list_sets": an object whose
\* keys are primary_list, secondary_list and, "null" or "absent", keep_notes.
JsonListSets ==
    [ keep_notes : {"absent", "null"},
      primary_list : ListNames \cup {EmptyStr},
      secondary_list : ListNames \cup {EmptyStr} ]

ConfigContents ==
    [ first_run_flag : {"True", "False"},
      username : UsernameShapes,
      master_token : {NoToken},
      num_sets : 0..MaxSets,
      list_sets : SeqsUpTo(JsonListSets, MaxSets) ]

NoConfig == [ first_run_flag |-> "", username |-> "empty", master_token |-> NoToken,
              num_sets |-> 0, list_sets |-> << >> ]

ConfigFiles ==
    { [state |-> "missing", content |-> NoConfig],
      [state |-> "corrupt", content |-> NoConfig] } \cup
    { [state |-> "ok", content |-> c] : c \in ConfigContents }

\* ----------------------------------------------------------- the note store
\* A list item is [id, text, checked]; a note is [title, items], its items
\* from top to bottom; the store maps NoteIdx, in the order keep.all() yields.
CheckedBox == "[x]"
UncheckedBox == "[ ]"
NewLine == "NL"

ItemStr(item) ==
    << IF item.checked THEN CheckedBox ELSE UncheckedBox, " " >> \o item.text

\* node.text of a list: its items' lines joined by newlines.
RECURSIVE JoinItems(_)
JoinItems(items) ==
    IF items = << >> THEN << >>
    ELSE IF Len(items) = 1 THEN ItemStr(items[1])
    ELSE ItemStr(items[1]) \o <<NewLine>> \o JoinItems(Tail(items))

NodeText(note) == JoinItems(note.items)

\* keep.find(query=q): the notes whose title or text contains q, in order.
Find(store, q) ==
    LET Match(n) == IsSubstr(q, store[n].title) \/ IsSubstr(q, NodeText(store[n]))
    IN  SelectSeq([n \in 1..Cardinality(NoteIdx) |-> n], Match)

\* A generator object is true whatever it will yield.
GeneratorTruth(found) == TRUE

\* note.checked: the checked items of a note.
CheckedItems(note) ==
    LET IsChecked(it) == it.checked IN SelectSeq(note.items, IsChecked)

\* A checkIfLowPriorityTicked that appends the item and forgets item.delete().
DeleteItemForgotten(store, id) == store

\* item.delete()
DeleteItem(store, id) ==
    LET Keep(it) == it.id # id
    IN  [n \in NoteIdx |-> [store[n] EXCEPT !.items = SelectSeq(@, Keep)]]

\* A note.add that places the new item at the bottom.
AddBottom(note, text, id) ==
    [note EXCEPT !.items = @ \o << [id |-> id, text |-> text, checked |-> FALSE] >>]

\* note.add(text, False, NewListItemPlacementValue.Top)
AddTop(note, text, id) ==
    [note EXCEPT !.items = << [id |-> id, text |-> text, checked |-> FALSE] >> \o @]

\* ------------------------------------------------------------- validation
checkUsername(username) ==
    IF username = "empty" THEN "ValueError"
    ELSE IF username = "not_gmail" THEN "ValueError"
    ELSE "ok"

checkToken(token) ==
    IF ~token.set \/ token.len = 0 THEN "ValueError"
    ELSE IF token.len < MinTokenLen THEN "ValueError"
    ELSE "ok"

checkNumSets(num_sets) ==
    IF num_sets < 1 THEN "ValueError" ELSE "ok"

\* The constructor called with a JSON object's keys as its arguments: a
\* missing keep_notes is a TypeError, a present one is a JSON value.
KeepListObj(list_set) ==
    IF list_set.keep_notes = "absent" THEN [ok |-> FALSE, obj |-> list_set]
    ELSE [ok |-> TRUE,
          obj |-> [keep_notes |-> "json", primary_list |-> list_set.primary_list,
                   secondary_list |-> list_set.secondary_list]]

\* checkListNames: empty names first, then keep_notes.find(query=name) for the
\* secondary and the primary name.  A JSON value has no find(query=...); the
\* Keep handle's find returns a generator, tested with `not'.
checkListNames(obj, store) ==
    IF obj.primary_list = EmptyStr THEN "ValueError"
    ELSE IF obj.secondary_list = EmptyStr THEN "ValueError"
    ELSE IF obj.keep_notes # "keep" THEN "AttributeError"
    ELSE IF ~GeneratorTruth(Find(store, obj.secondary_list)) THEN "LookupError"
    ELSE IF ~GeneratorTruth(Find(store, obj.primary_list)) THEN "LookupError"
    ELSE "ok"

\* The list comprehension of checkConfig and programLoop: "ok" with the
\* objects, or TypeError at the first element that lacks keep_notes.
RECURSIVE Deserialize(_)
Deserialize(list_sets) ==
    IF list_sets = << >> THEN [err |-> "ok", objs |-> << >>]
    ELSE LET h == KeepListObj(Head(list_sets))
             t == Deserialize(Tail(list_sets))
         IN  IF ~h.ok THEN [err |-> "TypeError", objs |-> << >>]
             ELSE IF t.err # "ok" THEN t
             ELSE [err |-> "ok", objs |-> <<h.obj>> \o t.objs]

\* The for loop of checkConfig over _keep_list: the error of the first object
\* whose checkListNames raises, and how many objects were examined.
RECURSIVE CheckAll(_, _, _)
CheckAll(objs, store, n) ==
    IF objs = << >> THEN [err |-> "ok", examined |-> n]
    ELSE LET r == checkListNames(Head(objs), store)
         IN  IF r # "ok" THEN [err |-> r, examined |-> n + 1]
             ELSE CheckAll(Tail(objs), store, n + 1)

\* checkConfig: the first check that fails decides; the messages of the
\* flag check name CONFIG_FILE, the default path.
checkConfig(cfg, store) ==
    IF cfg.first_run_flag # "True"
        THEN [err |-> "ValueError", file |-> "default", examined |-> 0]
    ELSE IF checkToken(cfg.master_token) # "ok"
        THEN [err |-> "ValueError", file |-> "", examined |-> 0]
    ELSE IF checkUsername(cfg.username) # "ok"
        THEN [err |-> "ValueError", file |-> "", examined |-> 0]
    ELSE IF checkNumSets(cfg.num_sets) # "ok"
        THEN [err |-> "ValueError", file |-> "", examined |-> 0]
    ELSE LET d == Deserialize(cfg.list_sets)
         IN  IF d.err # "ok" THEN [err |-> d.err, file |-> "", examined |-> 0]
             ELSE LET c == CheckAll(d.objs, store, 0)
                  IN  [err |-> c.err, file |-> "", examined |-> c.examined]

\* getConfigFromUser, for the inputs typed and the server's answer: the
\* exception it ends with, whether authenticate was called, whether the token
\* was stored.  json.dumps of vars(KeepListObj) meets the Keep object, so the
\* function raises TypeError when every check before it has passed.
getConfigFromUser(username, token, accepted, num_sets, primary, secondary, store) ==
    IF checkUsername(username) # "ok"
        THEN [err |-> "ValueError", authed |-> FALSE, stored |-> FALSE]
    ELSE IF checkToken(token) # "ok"
        THEN [err |-> "ValueError", authed |-> FALSE, stored |-> FALSE]
    ELSE IF ~accepted
        THEN [err |-> "LoginError", authed |-> TRUE, stored |-> FALSE]
    ELSE IF checkNumSets(num_sets) # "ok"
        THEN [err |-> "ValueError", authed |-> TRUE, stored |-> TRUE]
    ELSE LET x == [keep_notes |-> "keep", primary_list |-> primary,
                   secondary_list |-> secondary]
         IN  IF checkListNames(x, store) # "ok"
                 THEN [err |-> checkListNames(x, store), authed |-> TRUE, stored |-> TRUE]
                 ELSE [err |-> "TypeError", authed |-> TRUE, stored |-> TRUE]

\* The status the interpreter exits with: an uncaught exception gives 1; when
\* main returns, the call `main()' drops the value and the exit status is 0.
UncaughtStatus == 1
ProcessExitStatus(main_return) == 0


\* ------------------------------------------------------------ how a run ends
statusVars == << errKind, errFile, retval, exitStatus, exitCause >>

\* An exception no handler catches: the traceback and exit status 1.
Raise(kind, file) ==
    /\ pc' = "exited"
    /\ errKind' = kind
    /\ errFile' = file
    /\ exitCause' = "setup"
    /\ exitStatus' = UncaughtStatus
    /\ retval' = retval

\* programLoop returns rv to main, main returns it to the module's last line.
Return(rv, cause) ==
    /\ pc' = "exited"
    /\ errKind' = errKind
    /\ errFile' = errFile
    /\ exitCause' = cause
    /\ exitStatus' = ProcessExitStatus(rv)
    /\ retval' = rv

LoadedFile == IF args_config THEN "custom" ELSE "default"

\* ------------------------------------------------------------------- main
\* main, first run: no --config and no config.json.
MainFirstRun ==
    /\ pc = "start"
    /\ ~args_config
    /\ cfgFile.state = "missing"
    /\ \E username \in UsernameShapes, token \in Tokens, accepted \in BOOLEAN,
          num_sets \in 0..MaxSets, primary \in ListNames \cup {EmptyStr},
          secondary \in ListNames \cup {EmptyStr} :
          LET r == getConfigFromUser(username, token, accepted, num_sets,
                                     primary, secondary, notes)
          IN  /\ authCalls' = IF r.authed THEN authCalls \cup {token} ELSE authCalls
              /\ keyringTok' = IF r.stored THEN token ELSE keyringTok
              /\ Raise(r.err, "")
    /\ UNCHANGED << args_config, cfgFile, notesFile, config, examined, syncFailed >>
    /\ UNCHANGED loopVars

\* main, loadConfig(args.config) or loadConfig(CONFIG_FILE).
MainLoadConfig ==
    /\ pc = "start"
    /\ args_config \/ cfgFile.state # "missing"
    /\ \/ /\ cfgFile.state = "missing"
          /\ Raise("FileNotFoundError", LoadedFile)
          /\ UNCHANGED config
       \/ /\ cfgFile.state = "corrupt"
          /\ Raise("Exception", "")
          /\ UNCHANGED config
       \/ /\ cfgFile.state = "ok"          \* keyring.get_password raises
          /\ Raise("Exception", "")
          /\ UNCHANGED config
       \/ /\ cfgFile.state = "ok"
          /\ config' = [cfgFile.content EXCEPT !.master_token = keyringTok]
          /\ pc' = "loaded"
          /\ UNCHANGED statusVars
    /\ UNCHANGED << args_config, cfgFile, keyringTok, notesFile, authCalls,
                    examined, syncFailed >>
    /\ UNCHANGED loopVars

\* main, keep.authenticate(config["username"], config["master_token"]).
MainAuthenticate ==
    /\ pc = "loaded"
    /\ authCalls' = authCalls \cup {config.master_token}
    /\ \/ pc' = "authed" /\ UNCHANGED statusVars
       \/ Raise("LoginError", "")
    /\ UNCHANGED << args_config, cfgFile, keyringTok, notesFile, config,
                    examined, syncFailed >>
    /\ UNCHANGED loopVars

\* main, checkConfig(config).
MainCheckConfig ==
    /\ pc = "authed"
    /\ LET r == checkConfig(config, notes)
       IN  /\ examined' = r.examined
           /\ IF r.err = "ok"
                 THEN pc' = "checked" /\ UNCHANGED statusVars
                 ELSE Raise(r.err, r.file)
    /\ UNCHANGED << args_config, cfgFile, keyringTok, notesFile, config,
                    authCalls, syncFailed >>
    /\ UNCHANGED loopVars

\* main, the restore of the notes from KEEP_NOTES_PATH or online.
MainRestore ==
    /\ pc = "checked"
    /\ \/ /\ notesFile \in {"valid", "missing"}
          /\ pc' = "restored"
          /\ UNCHANGED statusVars
       \/ /\ notesFile \in {"valid", "corrupt"}
          /\ Raise("Exception", "")
       \/ /\ notesFile = "missing"
          /\ Raise("LoginError", "")
    /\ UNCHANGED << args_config, cfgFile, keyringTok, notesFile, config,
                    authCalls, examined, syncFailed >>
    /\ UNCHANGED loopVars

\* programLoop, the deserialization of _keep_list before the try.
ProgramLoopEnter ==
    /\ pc = "restored"
    /\ LET d == Deserialize(config.list_sets)
       IN  IF d.err = "ok"
              THEN /\ keep_list' = d.objs
                   /\ pc' = "sync"
                   /\ UNCHANGED statusVars
              ELSE /\ Raise(d.err, "")
                   /\ UNCHANGED keep_list
    /\ UNCHANGED << keyringTok, syncFailed >>
    /\ UNCHANGED mainVars
    /\ UNCHANGED << notes, li, scanQ, items_to_move, moveNotes, moveK,
                    snapshotWrites, nextId, pre >>

\* ------------------------------------------------------------ programLoop
LoopPcs == {"sync", "for", "scan", "move", "dump", "sleep"}

\* programLoop's frame is gone once it has returned: its locals are no more.
NoPre == [notes |-> << >>, writes |-> 0, li |-> 0, moved |-> << >>]

FrameGone ==
    /\ li' = 1
    /\ scanQ' = << >>
    /\ items_to_move' = << >>
    /\ moveNotes' = << >>
    /\ moveK' = 1
    /\ pre' = NoPre

\* keep.sync(): it returns, or it raises and the handler after the while
\* loop returns -2.
LoopSync ==
    /\ pc = "sync"
    /\ \/ /\ pc' = "for"
          /\ li' = 1
          /\ UNCHANGED << statusVars, syncFailed >>
          /\ UNCHANGED << scanQ, items_to_move, moveNotes, moveK, pre >>
       \/ /\ Return(-2, "loop_error")
          /\ syncFailed' = TRUE
          /\ FrameGone
    /\ UNCHANGED << keyringTok, notes, keep_list, snapshotWrites, nextId >>
    /\ UNCHANGED mainVars

\* The orders in which checkIfLowPriorityTicked can visit the checked items:
\* the notes find yields whose title contains the name, in order, and each
\* note's checked items in the order note.checked gives them.
Perms(s) ==
    { [i \in 1..Len(s) |-> s[p[i]]] : p \in Permutations(1..Len(s)) }

RECURSIVE ScanOrdersOf(_, _)
ScanOrdersOf(store, ns) ==
    IF ns = << >> THEN { << >> }
    ELSE { p \o rest : p \in Perms(CheckedItems(store[Head(ns)])),
                        rest \in ScanOrdersOf(store, Tail(ns)) }

SecondaryNotes(store, obj) ==
    LET Titled(n) == IsSubstr(obj.secondary_list, store[n].title)
    IN  SelectSeq(Find(store, obj.secondary_list), Titled)

ScanOrders(store, obj) == ScanOrdersOf(store, SecondaryNotes(store, obj))

\* for _keep_obj in _keep_list: the next object, and the call of
\* checkIfLowPriorityTicked on it.
ForNext ==
    /\ pc = "for"
    /\ li <= Len(keep_list)
    /\ keep_list[li].keep_notes = "keep"
    /\ \E order \in ScanOrders(notes, keep_list[li]) : scanQ' = order
    /\ items_to_move' = << >>
    /\ pre' = [notes |-> notes, writes |-> snapshotWrites, li |-> li, moved |-> << >>]
    /\ pc' = "scan"
    /\ UNCHANGED << keyringTok, syncFailed, notes, keep_list, li, moveNotes,
                    moveK, snapshotWrites, nextId >>
    /\ UNCHANGED << mainVars, statusVars >>

\* checkIfLowPriorityTicked, one checked item: append it and delete it.
ScanStep ==
    /\ pc = "scan"
    /\ scanQ # << >>
    /\ items_to_move' = Append(items_to_move, Head(scanQ))
    /\ notes' = DeleteItem(notes, Head(scanQ).id)
    /\ scanQ' = Tail(scanQ)
    /\ UNCHANGED << pc, keyringTok, syncFailed, keep_list, li, moveNotes, moveK,
                    snapshotWrites, nextId, pre >>
    /\ UNCHANGED << mainVars, statusVars >>

\* A programLoop without the `if _items_to_move' guard.
HasItemsToMoveAlways(items) == TRUE

\* if _items_to_move:
HasItemsToMove(items) == items # << >>

\* checkIfLowPriorityTicked returns; with items, moveItemsToPrimaryList is
\* called and its find runs, without, the for loop goes on.
ScanDone ==
    /\ pc = "scan"
    /\ scanQ = << >>
    /\ pre' = [pre EXCEPT !.moved = items_to_move]
    /\ IF HasItemsToMove(items_to_move)
          THEN /\ pc' = "move"
               /\ moveNotes' = Find(notes, keep_list[li].primary_list)
               /\ moveK' = 1
               /\ UNCHANGED li
          ELSE /\ pc' = "for"
               /\ li' = li + 1
               /\ UNCHANGED << moveNotes, moveK >>
    /\ UNCHANGED << keyringTok, syncFailed, notes, keep_list, scanQ, items_to_move,
                    snapshotWrites, nextId >>
    /\ UNCHANGED << mainVars, statusVars >>

\* moveItemsToPrimaryList, one note.add: the next item to the top of the note
\* being visited (a note with no item to add is left as it is).
MoveStep ==
    /\ pc = "move"
    /\ moveNotes # << >>
    /\ IF moveK > Len(items_to_move)
          THEN /\ moveNotes' = Tail(moveNotes)
               /\ moveK' = 1
               /\ UNCHANGED << notes, nextId >>
          ELSE /\ notes' = [notes EXCEPT ![Head(moveNotes)] =
                               AddTop(@, items_to_move[moveK].text, nextId)]
               /\ nextId' = nextId + 1
               /\ IF moveK = Len(items_to_move)
                     THEN moveNotes' = Tail(moveNotes) /\ moveK' = 1
                     ELSE moveNotes' = moveNotes /\ moveK' = moveK + 1
    /\ UNCHANGED << pc, keyringTok, syncFailed, keep_list, li, scanQ, items_to_move,
                    snapshotWrites, pre >>
    /\ UNCHANGED << mainVars, statusVars >>

\* moveItemsToPrimaryList returns; the print.
MoveDone ==
    /\ pc = "move"
    /\ moveNotes = << >>
    /\ pc' = "dump"
    /\ moveK' = 1
    /\ UNCHANGED << keyringTok, syncFailed, notes, keep_list, li, scanQ,
                    items_to_move, moveNotes, snapshotWrites, nextId, pre >>
    /\ UNCHANGED << mainVars, statusVars >>

\* _items_to_move.clear() and the dump of the notes to KEEP_NOTES_PATH.
Dump ==
    /\ pc = "dump"
    /\ items_to_move' = << >>
    /\ snapshotWrites' = snapshotWrites + 1
    /\ li' = li + 1
    /\ pc' = "for"
    /\ UNCHANGED << keyringTok, syncFailed, notes, keep_list, scanQ, moveNotes,
                    moveK, nextId, pre >>
    /\ UNCHANGED << mainVars, statusVars >>

\* The for loop is over (its iterator and the turn's record with it): sleep(1).
ForEnd ==
    /\ pc = "for"
    /\ li > Len(keep_list)
    /\ pc' = "sleep"
    /\ li' = 1
    /\ pre' = NoPre
    /\ UNCHANGED << keyringTok, syncFailed, notes, keep_list, scanQ, items_to_move,
                    moveNotes, moveK, snapshotWrites, nextId >>
    /\ UNCHANGED << mainVars, statusVars >>

\* while True: the next cycle.
LoopSleep ==
    /\ pc = "sleep"
    /\ pc' = "sync"
    /\ UNCHANGED << keyringTok, syncFailed >>
    /\ UNCHANGED << mainVars, statusVars, loopVars >>

\* KeyboardInterrupt anywhere inside the try: return 0.
Interrupt ==
    /\ pc \in LoopPcs
    /\ Return(0, "interrupt")
    /\ FrameGone
    /\ UNCHANGED << keyringTok, syncFailed, notes, keep_list, snapshotWrites, nextId >>
    /\ UNCHANGED mainVars

\* ------------------------------------------------------------ specifications
RawItems == [text : ItemTexts, checked : BOOLEAN]

\* A note of the store at the start: its items numbered from `base'.
MakeNote(title, raw, base) ==
    [title |-> title,
     items |-> [j \in 1..Len(raw) |->
                   [id |-> base + j, text |-> raw[j].text, checked |-> raw[j].checked]]]

\* The whole program.  The store holds two lists without items: no action of
\* Spec reads a list's items.
Init ==
    /\ pc = "start"
    /\ args_config \in BOOLEAN
    /\ cfgFile \in ConfigFiles
    /\ keyringTok \in Tokens
    /\ notesFile \in {"missing", "valid", "corrupt"}
    /\ config = NoConfig
    /\ authCalls = {}
    /\ errKind = ""
    /\ errFile = ""
    /\ retval = 0
    /\ exitStatus = 0
    /\ exitCause = ""
    /\ syncFailed = FALSE
    /\ examined = 0
    /\ \E t1 \in NoteTitles, t2 \in NoteTitles :
          notes = << MakeNote(t1, << >>, 0), MakeNote(t2, << >>, 0) >>
    /\ keep_list = << >>
    /\ li = 1
    /\ scanQ = << >>
    /\ items_to_move = << >>
    /\ moveNotes = << >>
    /\ moveK = 1
    /\ snapshotWrites = 0
    /\ nextId = 1
    /\ pre = NoPre

Next ==
    \/ MainFirstRun
    \/ MainLoadConfig
    \/ MainAuthenticate
    \/ MainCheckConfig
    \/ MainRestore
    \/ ProgramLoopEnter
    \/ LoopSync
    \/ ForEnd
    \/ LoopSleep
    \/ Interrupt

Spec == Init /\ [][Next]_vars

\* programLoop over list sets bound to the Keep handle, from every store of
\* two lists with at most MaxItems items.
BoundListSets ==
    [ keep_notes : {"keep"}, primary_list : ListNames, secondary_list : ListNames ]

InitLoop ==
    /\ pc = "sync"
    /\ args_config = FALSE
    /\ cfgFile = [state |-> "missing", content |-> NoConfig]
    /\ keyringTok = NoToken
    /\ notesFile = "missing"
    /\ config = NoConfig
    /\ authCalls = {}
    /\ errKind = ""
    /\ errFile = ""
    /\ retval = 0
    /\ exitStatus = 0
    /\ exitCause = ""
    /\ syncFailed = FALSE
    /\ examined = 0
    /\ \E k1 \in 0..MaxItems :
       \E k2 \in 0..(MaxItems - k1) :
       \E t1 \in NoteTitles, t2 \in NoteTitles,
          r1 \in [1..k1 -> RawItems], r2 \in [1..k2 -> RawItems] :
          notes = << MakeNote(t1, r1, 0), MakeNote(t2, r2, k1) >>
    /\ keep_list \in SeqsUpTo(BoundListSets, MaxSets)
    /\ li = 1
    /\ scanQ = << >>
    /\ items_to_move = << >>
    /\ moveNotes = << >>
    /\ moveK = 1
    /\ snapshotWrites = 0
    /\ nextId = MaxItems + 1
    /\ pre = NoPre

NextLoop ==
    \/ LoopSync
    \/ ForNext
    \/ ScanStep
    \/ ScanDone
    \/ MoveStep
    \/ MoveDone
    \/ Dump
    \/ ForEnd
    \/ LoopSleep
    \/ Interrupt

SpecLoop == InitLoop /\ [][NextLoop]_vars


\* ------------------------------------------------------------------ lemma
\* Under Spec the loop runs over no list set: checkConfig passes only when
\* every deserialized object passes checkListNames, and none does.
SpecKeepListEmpty == pc \in LoopPcs => keep_list = << >>

\* ------------------------------------------------- claims, under SpecLoop
Texts(items) == [i \in 1..Len(items) |-> items[i].text]
Ids(items) == { items[i].id : i \in 1..Len(items) }
StoreIds(store) == UNION { Ids(store[n].items) : n \in NoteIdx }
Unchecked(items) ==
    LET NotChecked(it) == ~it.checked IN SelectSeq(items, NotChecked)
Range(s) == { s[i] : i \in 1..Len(s) }

\* The store without the items of `gone'.
Without(store, gone) ==
    LET Stays(it) == it.id \notin Ids(gone)
    IN  [n \in NoteIdx |-> [store[n] EXCEPT !.items = SelectSeq(@, Stays)]]

\* Some list whose title contains the secondary name holds a checked item.
SecondaryChecked(store, obj) ==
    \E n \in Range(SecondaryNotes(store, obj)) : CheckedItems(store[n]) # << >>

InTurn == pre.li >= 1
TurnOver == pre.li >= 1 /\ pc = "for" /\ li = pre.li + 1

\* C4: in the turn of a list set whose secondary list has no checked item,
\* the store (the primary list with it) stays as it was when the turn began
\* and the snapshot file is not written; the turn goes from the scan straight
\* back to the for loop.
C4_EmptyMoveTouchesNothing ==
    (InTurn /\ ~SecondaryChecked(pre.notes, keep_list[pre.li]))
        => /\ notes = pre.notes
           /\ snapshotWrites = pre.writes
           /\ pc \in {"scan", "for"}

\* The turn of such a list set is over, in a store where the secondary and
\* the primary list exist and another list holds a checked item.
C4_Witness ==
    /\ TurnOver
    /\ ~SecondaryChecked(pre.notes, keep_list[pre.li])
    /\ SecondaryNotes(pre.notes, keep_list[pre.li]) # << >>
    /\ Find(pre.notes, keep_list[pre.li].primary_list) # << >>
    /\ \E n \in NoteIdx : CheckedItems(notes[n]) # << >>

\* C5: when moveItemsToPrimaryList has returned, every list the primary name
\* finds holds the moved texts at its top in the reverse of the scan order,
\* unchecked, above the items it held when the move began, those unchanged;
\* every other list is as it was when the move began.
C5_ReverseScanOrderAtTop ==
    pc = "dump" =>
        LET base == Without(pre.notes, pre.moved)
            targets == Range(Find(base, keep_list[li].primary_list))
            k == Len(pre.moved)
        IN  \A n \in NoteIdx :
                IF n \in targets
                THEN /\ Len(notes[n].items) = k + Len(base[n].items)
                     /\ Texts(SubSeq(notes[n].items, 1, k)) = Reverse(Texts(pre.moved))
                     /\ \A j \in 1..k : ~notes[n].items[j].checked
                     /\ SubSeq(notes[n].items, k + 1, Len(notes[n].items)) = base[n].items
                ELSE notes[n] = base[n]

\* Two items of different texts were moved to a primary list that was empty.
C5_Witness ==
    /\ pc = "dump"
    /\ Len(pre.moved) >= 2
    /\ pre.moved[1].text # pre.moved[2].text
    /\ \E n \in Range(Find(Without(pre.notes, pre.moved), keep_list[li].primary_list)) :
          /\ pre.notes[n].items = << >>
          /\ Len(notes[n].items) = Len(pre.moved)

\* C8: a step that inserts an item into a list is taken only when the scan
\* is over, no collected item is still in the store and no list whose title
\* contains the secondary name holds a checked item.
C8_DeleteBeforeMove ==
    [][ (\E n \in NoteIdx : Len(notes'[n].items) > Len(notes[n].items))
            => /\ scanQ = << >>
               /\ Ids(items_to_move) \cap StoreIds(notes) = {}
               /\ ~SecondaryChecked(notes, keep_list[li]) ]_vars

\* The first of two collected items has been inserted.
C8_Witness ==
    /\ pc = "move"
    /\ Len(items_to_move) >= 2
    /\ moveK = 2
    /\ \E n \in NoteIdx : \E j \in 1..Len(notes[n].items) :
          notes[n].items[j].id \notin StoreIds(pre.notes)

ValidToken(token) == token.set /\ token.len >= MinTokenLen
PastCheckConfig == pc \in {"checked", "restored"} \cup LoopPcs

\* C1: after keep.sync has raised, the loop is still running, or the user
\* has interrupted it.
C1_RefreshFailureKeepsLooping ==
    syncFailed => (pc \in LoopPcs \/ exitCause = "interrupt")

\* C2: keep.authenticate is never called with a token shorter than the
\* minimum length.
C2_ShortTokenNeverAuthenticated ==
    \A t \in authCalls : ValidToken(t)

\* C3: with a loaded first_run_flag other than "True", authenticate has not
\* been called, the run does not get past checkConfig, and once it has ended
\* its error is the configuration error naming the loaded file.
C3_BadFlagFailsBeforeAuth ==
    config.first_run_flag = "False"
        => /\ authCalls = {}
           /\ ~PastCheckConfig
           /\ pc = "exited" => (errKind = "ValueError" /\ errFile = LoadedFile)

\* C6: a configuration that passed checkConfig had exactly num_sets pairs
\* examined, and its list_sets holds num_sets pairs.
C6_ValidationExaminesNumSets ==
    PastCheckConfig
        => /\ examined = config.num_sets
           /\ Len(config.list_sets) = config.num_sets

\* C7: a run ended by an interrupt exits with 0, one ended by another error
\* in the loop with a status that is neither 0 nor the start-up failure's.
C7_ExitStatusDistinguishes ==
    pc = "exited"
        => /\ exitCause = "interrupt" => exitStatus = 0
           /\ exitCause = "loop_error" => exitStatus \notin {0, UncaughtStatus}

\* C9: the loop runs only with first_run_flag "True", at least one list set,
\* and every list name non-empty and found in the note store.
C9_LoopOnlyWithValidConfig ==
    pc \in LoopPcs
        => /\ config.first_run_flag = "True"
           /\ Len(config.list_sets) >= 1
           /\ \A i \in 1..Len(config.list_sets) :
                 \A name \in { config.list_sets[i].primary_list,
                               config.list_sets[i].secondary_list } :
                     name # EmptyStr /\ Find(notes, name) # << >>

====
